---- MODULE Spec2Model ----
(***************************************************************************)
(* A model of AbstractSettings (src/src/core/abstractsettings.cpp): the    *)
(* typed settings registry over a QSettings store; and of the page fetch   *)
(* of WizardDialog (src/src/dialogs/wizarddialog.cpp).                     *)
(*                                                                         *)
(* A QString is a record [isNull, str]: QString() is the null string, and  *)
(* QString::operator== compares the characters only, so the null string    *)
(* equals the empty one while isNull() tells them apart.                   *)
(***************************************************************************)
EXTENDS Integers, Sequences, FiniteSets, TLC

VARIABLES
    m_items,    \* QList<SettingsItem*>: sequence of [keyType, key, value, defaultValue]
    m_default,  \* bool m_default: the "restore default" (preview) flag
    settings,   \* the "Preference" group of the QSettings store: name -> text
    last,       \* name of the operation that ran last
    thrown,     \* exception the last operation threw, or "none"
    changed,    \* number of changed() signals the last operation emitted
    ret,        \* value the last operation returned: [kind, val]
    fresh,      \* the second registry: [built, items], items being its m_items
    USE_QT_WEBENGINE,   \* the build option: TRUE when the dialog is built on QWebEngineView
    m_url,      \* QUrl m_url of the wizard dialog
    replies,    \* the QNetworkReply objects of the dialog, in order of creation: [url, state]
    m_model,    \* what the link model holds: [parsed, data, url]
    ui          \* [stackedWidget, progressBar, progressBarVisible, progressLabel]

settingsVars == <<m_items, m_default, settings, fresh>>
wizardVars == <<USE_QT_WEBENGINE, m_url, replies, m_model, ui>>
vars == <<m_items, m_default, settings, last, thrown, changed, ret, fresh,
          USE_QT_WEBENGINE, m_url, replies, m_model, ui>>

-----------------------------------------------------------------------------
(* Bounds of the model *)

MaxItems == 2       \* entries the registry may hold
MaxList == 2        \* longest QStringList passed to a list operation
MaxReplies == 2     \* fetches one wizard dialog starts

-----------------------------------------------------------------------------
(* QString *)

NullQString == [isNull |-> TRUE, str |-> ""]
QStr(s) == [isNull |-> FALSE, str |-> s]
QEq(a, b) == a.str = b.str

UNDEFINED == QStr("<UNDEFINED>")
VALUE_TRUE == QStr("<TRUE>")
VALUE_FALSE == QStr("<FALSE>")

KeyIsIllegal(key) == key = "" \/ key = UNDEFINED.str
ValueIsIllegal(value) == value.isNull \/ QEq(value, UNDEFINED)

boolToString(b) == IF b THEN VALUE_TRUE ELSE VALUE_FALSE
stringToBool(q) == QEq(q, VALUE_TRUE)

Digit(d) == SubSeq("0123456789", d + 1, d + 1)

RECURSIVE NatToString(_)
NatToString(n) == IF n < 10 THEN Digit(n) ELSE NatToString(n \div 10) \o Digit(n % 10)

\* the range of int
IntMax == 2^30 - 1 + 2^30
IntMin == -IntMax - 1

\* QString::number(int): decimal, with a leading '-' for a negative value
intToString(value) ==
    QStr(IF value = IntMin THEN "-2147483648"
         ELSE IF value < 0 THEN "-" \o NatToString(-value)
         ELSE NatToString(value))

IsDigit(c) == \E d \in 0..9 : Digit(d) = c
DigitValue(c) == CHOOSE d \in 0..9 : Digit(d) = c

RECURSIVE ParseNeg(_, _)
\* minus the value of the digit string s, the digits read so far having given
\* -acc; 1 when s holds a character that is no digit or the value leaves the
\* range of int
ParseNeg(s, acc) ==
    IF Len(s) = 0 THEN acc
    ELSE IF ~IsDigit(SubSeq(s, 1, 1)) THEN 1
    ELSE LET d == DigitValue(SubSeq(s, 1, 1))
         IN  IF acc < (IntMin + d + 9) \div 10 THEN 1
             ELSE ParseNeg(SubSeq(s, 2, Len(s)), acc * 10 - d)

\* QString::toInt(): 0 when the text is no decimal int (empty, null, not a
\* number, out of the range of int)
stringToInt(q) ==
    LET s == q.str
        neg == Len(s) > 0 /\ SubSeq(s, 1, 1) = "-"
        pos == Len(s) > 0 /\ SubSeq(s, 1, 1) = "+"
        body == IF neg \/ pos THEN SubSeq(s, 2, Len(s)) ELSE s
        m == IF Len(body) = 0 THEN 1 ELSE ParseNeg(body, 0)
    IN  IF m = 1 \/ (~neg /\ m = IntMin) THEN 0
        ELSE IF neg THEN m ELSE -m

-----------------------------------------------------------------------------
(* SettingsItem and the lookups of the foreach loops *)

\* enum KeyType { BOOL, INTEGER, STRING }
KT_BOOL == "BOOL"
KT_INTEGER == "INTEGER"
KT_STRING == "STRING"
KeyType == {KT_BOOL, KT_INTEGER, KT_STRING}

\* new SettingsItem(): key, keyType and defaultValue are assigned, value is
\* left as the default-constructed (null) QString
NewSettingsItem(key, keyType, defaultValue) ==
    [keyType |-> keyType, key |-> key, value |-> NullQString,
     defaultValue |-> defaultValue]

Min(S) == CHOOSE x \in S : \A y \in S : x <= y

\* index of the first item with this key, 0 when there is none
FirstWithKey(items, key) ==
    LET S == {i \in 1..Len(items) : items[i].key = key}
    IN  IF S = {} THEN 0 ELSE Min(S)

\* index of the first item with this key and type, 0 when there is none
FirstWithKeyAndType(items, key, keyType) ==
    LET S == {i \in 1..Len(items) : items[i].keyType = keyType /\ items[i].key = key}
    IN  IF S = {} THEN 0 ELSE Min(S)

uniqueRegisterKey(item) ==
    CASE item.keyType = KT_BOOL -> item.key \o "_bool"
      [] item.keyType = KT_INTEGER -> item.key \o "_int"
      [] item.keyType = KT_STRING -> item.key

-----------------------------------------------------------------------------
(* The three private workers, as functions of the item list.  Each yields  *)
(* the item list afterwards, the exception thrown and the signals emitted. *)

Outcome(items, exc, n) == [items |-> items, thrown |-> exc, emitted |-> n]

\* q_addDefaultSetting without the check of the default
q_addDefaultSetting_NoValueCheck(items, key, defaultValue, keyType) ==
    IF KeyIsIllegal(key) THEN Outcome(items, "IllegalKeyException", 0)
    ELSE LET i == FirstWithKeyAndType(items, key, keyType)
         IN  IF i /= 0
             THEN Outcome([items EXCEPT ![i].defaultValue = defaultValue], "none", 0)
             ELSE Outcome(Append(items, NewSettingsItem(key, keyType, defaultValue)),
                          "none", 0)

\* q_addDefaultSetting with a re-registration that also resets the value
q_addDefaultSetting_ResetsValue(items, key, defaultValue, keyType) ==
    IF KeyIsIllegal(key) THEN Outcome(items, "IllegalKeyException", 0)
    ELSE IF ValueIsIllegal(defaultValue) THEN Outcome(items, "IllegalValueException", 0)
    ELSE LET i == FirstWithKeyAndType(items, key, keyType)
         IN  IF i /= 0
             THEN Outcome([items EXCEPT ![i].defaultValue = defaultValue,
                                        ![i].value = defaultValue], "none", 0)
             ELSE Outcome(Append(items, NewSettingsItem(key, keyType, defaultValue)),
                          "none", 0)

q_addDefaultSetting(items, key, defaultValue, keyType) ==
    IF KeyIsIllegal(key) THEN Outcome(items, "IllegalKeyException", 0)
    ELSE IF ValueIsIllegal(defaultValue) THEN Outcome(items, "IllegalValueException", 0)
    ELSE LET i == FirstWithKeyAndType(items, key, keyType)
         IN  IF i /= 0
             THEN Outcome([items EXCEPT ![i].defaultValue = defaultValue], "none", 0)
             ELSE Outcome(Append(items, NewSettingsItem(key, keyType, defaultValue)),
                          "none", 0)

\* q_getSetting without the check of the entry's type
q_getSetting_NoTypeCheck(items, preview, key, keyType) ==
    IF KeyIsIllegal(key) THEN [thrown |-> "IllegalKeyException", value |-> NullQString]
    ELSE LET i == FirstWithKey(items, key)
         IN  IF i = 0 THEN [thrown |-> "MissingKeyException", value |-> NullQString]
             ELSE [thrown |-> "none",
                   value |-> IF preview THEN items[i].defaultValue ELSE items[i].value]

\* [thrown, value]: the exception, or the QString returned
q_getSetting(items, preview, key, keyType) ==
    IF KeyIsIllegal(key) THEN [thrown |-> "IllegalKeyException", value |-> NullQString]
    ELSE LET i == FirstWithKey(items, key)
         IN  IF i = 0 THEN [thrown |-> "MissingKeyException", value |-> NullQString]
             ELSE IF items[i].keyType /= keyType
             THEN [thrown |-> "WrongTypeException", value |-> NullQString]
             ELSE [thrown |-> "none",
                   value |-> IF preview THEN items[i].defaultValue ELSE items[i].value]

\* q_setSetting without the check of the key
q_setSetting_NoKeyCheck(items, key, value, keyType) ==
    IF ValueIsIllegal(value) THEN Outcome(items, "IllegalValueException", 0)
    ELSE LET i == FirstWithKey(items, key)
         IN  IF i = 0 THEN Outcome(items, "MissingKeyException", 0)
             ELSE IF items[i].keyType /= keyType
             THEN Outcome(items, "WrongTypeException", 0)
             ELSE IF ~QEq(items[i].value, value)
             THEN Outcome([items EXCEPT ![i].value = value], "none", 1)
             ELSE Outcome(items, "none", 0)

q_setSetting(items, key, value, keyType) ==
    IF KeyIsIllegal(key) THEN Outcome(items, "IllegalKeyException", 0)
    ELSE IF ValueIsIllegal(value) THEN Outcome(items, "IllegalValueException", 0)
    ELSE LET i == FirstWithKey(items, key)
         IN  IF i = 0 THEN Outcome(items, "MissingKeyException", 0)
             ELSE IF items[i].keyType /= keyType
             THEN Outcome(items, "WrongTypeException", 0)
             ELSE IF ~QEq(items[i].value, value)
             THEN Outcome([items EXCEPT ![i].value = value], "none", 1)
             ELSE Outcome(items, "none", 0)

-----------------------------------------------------------------------------
(* readSettings and writeSettings, as functions of the item list and store *)

StoreHas(store, name) == name \in DOMAIN store

\* settings.value(name, UNDEFINED).toString(); the store keeps the characters
\* of a value, so what comes back is never the null string
StoreValue(store, name) == IF StoreHas(store, name) THEN QStr(store[name]) ELSE UNDEFINED

\* settings.setValue(name, value)
StoreSet(store, name, value) ==
    [n \in DOMAIN store \cup {name} |-> IF n = name THEN value.str ELSE store[n]]

\* ReadItem looking the entry up under its bare key, not its namespaced one
ReadItem_BareKey(store, item) ==
    LET value == StoreValue(store, item.key)
    IN  [item EXCEPT !.value = IF ~QEq(value, UNDEFINED) THEN value ELSE item.defaultValue]

ReadItem(store, item) ==
    LET value == StoreValue(store, uniqueRegisterKey(item))
    IN  [item EXCEPT !.value = IF ~QEq(value, UNDEFINED) THEN value ELSE item.defaultValue]

ReadItems(store, items) == [i \in 1..Len(items) |-> ReadItem(store, items[i])]

RECURSIVE WriteItems_Always(_, _, _)
\* WriteItems storing every entry, whatever its value and the store
WriteItems_Always(store, items, i) ==
    IF i > Len(items) THEN store
    ELSE WriteItems_Always(StoreSet(store, uniqueRegisterKey(items[i]), items[i].value),
                           items, i + 1)

RECURSIVE WriteItems(_, _, _)
\* the store after the foreach loop of writeSettings has run from item i on
WriteItems(store, items, i) ==
    IF i > Len(items) THEN store
    ELSE LET item == items[i]
             name == uniqueRegisterKey(item)
         IN  IF ~QEq(item.value, item.defaultValue) \/ StoreHas(store, name)
             THEN WriteItems(StoreSet(store, name, item.value), items, i + 1)
             ELSE WriteItems(store, items, i + 1)

-----------------------------------------------------------------------------
(* The string-list operations, as functions of the item list *)

\* QString("%0%1").arg(key).arg(i)
SubKey(key, i) == key \o NatToString(i)

RECURSIVE ConcatFrom(_, _)
ConcatFrom(f, i) == IF i > Len(f) THEN <<>> ELSE f[i] \o ConcatFrom(f, i + 1)

\* the values the inner foreach appends for one subkey
ValuesOfKey(items, preview, subkey) ==
    LET hits == SelectSeq(items, LAMBDA item : item.key = subkey)
    IN  [j \in 1..Len(hits) |->
            IF preview THEN hits[j].defaultValue ELSE hits[j].value]

q_getSettingStringList(items, preview, key) ==
    ConcatFrom([n \in 1..Len(items) |-> ValuesOfKey(items, preview, SubKey(key, n - 1))], 1)

RECURSIVE q_addDefaultSettingStringList(_, _, _, _)
\* the loop from index i (0-based) on; it ends at the first exception
q_addDefaultSettingStringList(items, key, defaultValue, i) ==
    IF i >= Len(defaultValue) THEN Outcome(items, "none", 0)
    ELSE LET r == q_addDefaultSetting(items, SubKey(key, i), defaultValue[i + 1], KT_STRING)
         IN  IF r.thrown /= "none" THEN r
             ELSE q_addDefaultSettingStringList(r.items, key, defaultValue, i + 1)

RECURSIVE q_setSettingStringList_FirstElement(_, _, _, _, _)
\* q_setSettingStringList giving every sub-key the first element of the list
q_setSettingStringList_FirstElement(items, key, value, i, n) ==
    IF i >= Len(value) THEN Outcome(items, "none", n)
    ELSE LET r == q_setSetting(items, SubKey(key, i), value[1], KT_STRING)
         IN  IF r.thrown /= "none" THEN Outcome(r.items, r.thrown, n)
             ELSE q_setSettingStringList_FirstElement(r.items, key, value, i + 1,
                                                      n + r.emitted)

RECURSIVE q_setSettingStringList(_, _, _, _, _)
\* the loop from index i (0-based) on, n signals emitted so far
q_setSettingStringList(items, key, value, i, n) ==
    IF i >= Len(value) THEN Outcome(items, "none", n)
    ELSE LET r == q_setSetting(items, SubKey(key, i), value[i + 1], KT_STRING)
         IN  IF r.thrown /= "none" THEN Outcome(r.items, r.thrown, n)
             ELSE q_setSettingStringList(r.items, key, value, i + 1, n + r.emitted)

-----------------------------------------------------------------------------
(* Initial state: a registry right after construction, over an empty store. *)
(* The constructor assigns nothing: m_items is the empty list, and m_default *)
(* has whatever its declaration in abstractsettings.h gives it, so either    *)
(* value is allowed here.                                                    *)

EmptyStore == [n \in {} |-> ""]
NoFresh == [built |-> FALSE, items |-> <<>>]
Void == [kind |-> "void", val |-> FALSE]
Returned(kind, val) == [kind |-> kind, val |-> val]

\* QUrl(): the empty URL, which is not valid
NoUrl == ""
\* the link model with nothing parsed into it
NoLinks == [parsed |-> FALSE, data |-> "", url |-> NoUrl]
\* the widgets as setupUi leaves them
NewUi == [stackedWidget |-> 0, progressBar |-> 0, progressBarVisible |-> TRUE,
          progressLabel |-> [text |-> "", url |-> NoUrl]]

\* the registry as constructed
InitSettings ==
    /\ m_items = <<>>
    /\ m_default \in BOOLEAN
    /\ settings = EmptyStore
    /\ last = "constructor"
    /\ thrown = "none"
    /\ changed = 0
    /\ ret = Void
    /\ fresh = NoFresh

\* the wizard dialog as constructed: no URL, no fetch started, empty model
InitWizardDialog ==
    /\ m_url = NoUrl
    /\ replies = <<>>
    /\ m_model = NoLinks
    /\ ui = NewUi

Init ==
    /\ InitSettings
    /\ USE_QT_WEBENGINE = FALSE
    /\ InitWizardDialog

\* what every operation of the registry leaves behind for the observer
Done(op, exc, n, r) ==
    /\ last' = op
    /\ thrown' = exc
    /\ changed' = n
    /\ ret' = r
    /\ fresh' = NoFresh
    /\ UNCHANGED wizardVars

\* the registry holds at most MaxItems entries: a registration that would
\* append one more is not taken
Fits(r) == Len(r.items) <= MaxItems

-----------------------------------------------------------------------------
(* The public operations *)

beginRestoreDefault ==
    /\ m_default' = TRUE
    /\ Done("beginRestoreDefault", "none", 0, Void)
    /\ UNCHANGED <<m_items, settings>>

endRestoreDefault ==
    /\ m_default' = FALSE
    /\ Done("endRestoreDefault", "none", 0, Void)
    /\ UNCHANGED <<m_items, settings>>

readSettings ==
    /\ m_items' = ReadItems(settings, m_items)
    /\ Done("readSettings", "none", 1, Void)
    /\ UNCHANGED <<m_default, settings>>

writeSettings ==
    /\ settings' = WriteItems(settings, m_items, 1)
    /\ Done("writeSettings", "none", 0, Void)
    /\ UNCHANGED <<m_items, m_default>>

addDefaultSettingBool(key, defaultValue) ==
    LET r == q_addDefaultSetting(m_items, key, boolToString(defaultValue), KT_BOOL)
    IN  /\ Fits(r)
        /\ m_items' = r.items
        /\ Done("addDefaultSettingBool", r.thrown, r.emitted, Void)
        /\ UNCHANGED <<m_default, settings>>

\* [thrown, ret] of getSettingBool(key)
getSettingBoolResult(items, preview, key) ==
    LET r == q_getSetting(items, preview, key, KT_BOOL)
    IN  [thrown |-> r.thrown,
         ret |-> IF r.thrown = "none" THEN Returned("bool", stringToBool(r.value))
                 ELSE Void]

getSettingBool(key) ==
    LET r == getSettingBoolResult(m_items, m_default, key)
    IN  /\ Done("getSettingBool", r.thrown, 0, r.ret)
        /\ UNCHANGED <<m_items, m_default, settings>>

setSettingBool(key, value) ==
    LET r == q_setSetting(m_items, key, boolToString(value), KT_BOOL)
    IN  /\ m_items' = r.items
        /\ Done("setSettingBool", r.thrown, r.emitted, Void)
        /\ UNCHANGED <<m_default, settings>>

addDefaultSettingInt(key, defaultValue) ==
    LET r == q_addDefaultSetting(m_items, key, intToString(defaultValue), KT_INTEGER)
    IN  /\ Fits(r)
        /\ m_items' = r.items
        /\ Done("addDefaultSettingInt", r.thrown, r.emitted, Void)
        /\ UNCHANGED <<m_default, settings>>

\* [thrown, ret] of getSettingInt(key)
getSettingIntResult(items, preview, key) ==
    LET r == q_getSetting(items, preview, key, KT_INTEGER)
    IN  [thrown |-> r.thrown,
         ret |-> IF r.thrown = "none" THEN Returned("int", stringToInt(r.value))
                 ELSE Void]

getSettingInt(key) ==
    LET r == getSettingIntResult(m_items, m_default, key)
    IN  /\ Done("getSettingInt", r.thrown, 0, r.ret)
        /\ UNCHANGED <<m_items, m_default, settings>>

setSettingInt(key, value) ==
    LET r == q_setSetting(m_items, key, intToString(value), KT_INTEGER)
    IN  /\ m_items' = r.items
        /\ Done("setSettingInt", r.thrown, r.emitted, Void)
        /\ UNCHANGED <<m_default, settings>>

addDefaultSettingString(key, defaultValue) ==
    LET r == q_addDefaultSetting(m_items, key, defaultValue, KT_STRING)
    IN  /\ Fits(r)
        /\ m_items' = r.items
        /\ Done("addDefaultSettingString", r.thrown, r.emitted, Void)
        /\ UNCHANGED <<m_default, settings>>

\* [thrown, ret] of getSettingString(key)
getSettingStringResult(items, preview, key) ==
    LET r == q_getSetting(items, preview, key, KT_STRING)
    IN  [thrown |-> r.thrown,
         ret |-> IF r.thrown = "none" THEN Returned("QString", r.value) ELSE Void]

getSettingString(key) ==
    LET r == getSettingStringResult(m_items, m_default, key)
    IN  /\ Done("getSettingString", r.thrown, 0, r.ret)
        /\ UNCHANGED <<m_items, m_default, settings>>

setSettingString(key, value) ==
    LET r == q_setSetting(m_items, key, value, KT_STRING)
    IN  /\ m_items' = r.items
        /\ Done("setSettingString", r.thrown, r.emitted, Void)
        /\ UNCHANGED <<m_default, settings>>

getSettingStringList(key) ==
    /\ Done("getSettingStringList", "none", 0,
            Returned("QStringList", q_getSettingStringList(m_items, m_default, key)))
    /\ UNCHANGED <<m_items, m_default, settings>>

addDefaultSettingStringList(key, defaultValue) ==
    LET r == q_addDefaultSettingStringList(m_items, key, defaultValue, 0)
    IN  /\ Fits(r)
        /\ m_items' = r.items
        /\ Done("addDefaultSettingStringList", r.thrown, r.emitted, Void)
        /\ UNCHANGED <<m_default, settings>>

setSettingStringList(key, value) ==
    LET r == q_setSettingStringList(m_items, key, value, 0, 0)
    IN  /\ m_items' = r.items
        /\ Done("setSettingStringList", r.thrown, r.emitted, Void)
        /\ UNCHANGED <<m_default, settings>>

-----------------------------------------------------------------------------
(* A second registry: constructed after writeSettings, it registers the    *)
(* schema of the first one (same keys, types and defaults, same order) and *)
(* calls readSettings.                                                     *)

RECURSIVE RegisterSchema(_, _, _)
RegisterSchema(items, schema, i) ==
    IF i > Len(schema) THEN items
    ELSE RegisterSchema(
            q_addDefaultSetting(items, schema[i].key, schema[i].defaultValue,
                                schema[i].keyType).items,
            schema, i + 1)

\* changed counts the signal of the second registry's readSettings
freshRegistry ==
    /\ last = "writeSettings"
    /\ fresh' = [built |-> TRUE,
                 items |-> ReadItems(settings, RegisterSchema(<<>>, m_items, 1))]
    /\ last' = "freshRegistry"
    /\ thrown' = "none"
    /\ changed' = 1
    /\ ret' = Void
    /\ UNCHANGED <<m_items, m_default, settings>>
    /\ UNCHANGED wizardVars

-----------------------------------------------------------------------------
(* The registry without persistence writes: registration, typed get and    *)
(* set, the preview flag, and readSettings over the empty store.           *)

IllegalKeys == {"", "<UNDEFINED>"}
Keys == IllegalKeys \cup {"x", "y"}
BoolRegKeys == IllegalKeys \cup {"x"}
IntRegKeys == IllegalKeys \cup {"x"}
StringRegKeys == IllegalKeys \cup {"x", "y"}
IntDefaults == {-12}
IntValues == {0, -12}
StringDefaults == {NullQString, UNDEFINED, QStr("a")}
StringValues == {NullQString, UNDEFINED, QStr(""), QStr("a")}

Next ==
    \/ beginRestoreDefault
    \/ endRestoreDefault
    \/ readSettings
    \/ \E key \in BoolRegKeys, v \in BOOLEAN : addDefaultSettingBool(key, v)
    \/ \E key \in Keys : getSettingBool(key)
    \/ \E key \in Keys, v \in BOOLEAN : setSettingBool(key, v)
    \/ \E key \in IntRegKeys, v \in IntDefaults : addDefaultSettingInt(key, v)
    \/ \E key \in Keys : getSettingInt(key)
    \/ \E key \in Keys, v \in IntValues : setSettingInt(key, v)
    \/ \E key \in StringRegKeys, v \in StringDefaults : addDefaultSettingString(key, v)
    \/ \E key \in Keys : getSettingString(key)
    \/ \E key \in Keys, v \in StringValues : setSettingString(key, v)

Spec == Init /\ [][Next]_vars

-----------------------------------------------------------------------------
(* The registry with its store: registration, set, the preview flag,       *)
(* readSettings, writeSettings and the second registry.  The Boolean key   *)
(* "x" and the String key "x_bool" share the store name "x_bool".          *)

StoreBoolKeys == {"x"}
StoreIntKeys == {"x"}
StoreStringKeys == {"x", "x_bool"}
StoreIntValues == {7}
StoreStringDefaults == {QStr("a")}
StoreStringValues == {QStr("a"), QStr("b")}

NextStore ==
    \/ beginRestoreDefault
    \/ endRestoreDefault
    \/ readSettings
    \/ writeSettings
    \/ freshRegistry
    \/ \E key \in StoreBoolKeys, v \in BOOLEAN : addDefaultSettingBool(key, v)
    \/ \E key \in StoreBoolKeys, v \in BOOLEAN : setSettingBool(key, v)
    \/ \E key \in StoreIntKeys, v \in StoreIntValues : addDefaultSettingInt(key, v)
    \/ \E key \in StoreIntKeys, v \in StoreIntValues : setSettingInt(key, v)
    \/ \E key \in StoreStringKeys, v \in StoreStringDefaults :
            addDefaultSettingString(key, v)
    \/ \E key \in StoreStringKeys, v \in StoreStringValues : setSettingString(key, v)

SpecStore == Init /\ [][NextStore]_vars

-----------------------------------------------------------------------------
(* The string lists: a list "p" is the String entries "p0", "p1", ...      *)

ListKeys == {"p"}
SubKeys == {"p0", "p1"}
ListTexts == {QStr("a"), QStr("b")}
RECURSIVE SeqsUpTo(_, _)
SeqsUpTo(S, n) ==
    IF n = 0 THEN {<<>>}
    ELSE LET shorter == SeqsUpTo(S, n - 1)
         IN  shorter \cup {Append(q, e) : q \in shorter, e \in S}
Lists == SeqsUpTo(ListTexts, MaxList) \cup {<<QStr("a"), NullQString>>}

NextList ==
    \/ beginRestoreDefault
    \/ endRestoreDefault
    \/ \E key \in ListKeys : getSettingStringList(key)
    \/ \E key \in ListKeys, v \in Lists : addDefaultSettingStringList(key, v)
    \/ \E key \in ListKeys, v \in Lists : setSettingStringList(key, v)
    \/ \E key \in SubKeys, v \in BOOLEAN : addDefaultSettingBool(key, v)
    \/ \E key \in SubKeys, v \in ListTexts : addDefaultSettingString(key, v)
    \/ \E key \in SubKeys, v \in ListTexts : setSettingString(key, v)

SpecList == Init /\ [][NextList]_vars

-----------------------------------------------------------------------------
(* The wizard dialog fetching a page.  The page a server returns for a URL  *)
(* is named by that URL; what HtmlParser::parse puts into the link model is *)
(* named by its two arguments, the data and the URL the links are resolved *)
(* against.                                                                 *)

UrlIsValid(url) == url /= NoUrl

setProgressInfo(u, percent, text) ==
    IF percent < 0
    THEN [stackedWidget |-> 1, progressBar |-> 0, progressBarVisible |-> FALSE,
          progressLabel |-> text]
    ELSE IF percent >= 0 /\ percent < 100
    THEN [stackedWidget |-> 1, progressBar |-> percent, progressBarVisible |-> TRUE,
          progressLabel |-> text]
    ELSE [u EXCEPT !.stackedWidget = 0]

\* tr("...") with no URL in it
Label(text) == [text |-> text, url |-> NoUrl]

qMin(a, b) == IF a < b THEN a ELSE b

\* what the conversion of a double beyond the range of int may give
UndefinedInts == {IntMin, 0, IntMax}

\* the values of qMin(qFloor(90.0 * bytesReceived / bytesTotal), 90) for
\* bytesReceived >= 0 and bytesTotal > 0: the floor of the quotient, or, the
\* quotient being beyond the range of int, whatever the conversion gives
DownloadPercents(bytesReceived, bytesTotal) ==
    LET q == bytesReceived \div bytesTotal
        m == bytesReceived % bytesTotal
    IN  IF q > IntMax \div 90 \/ (90 * m) \div bytesTotal > IntMax - 90 * q
        THEN {qMin(x, 90) : x \in UndefinedInts}
        ELSE {qMin(90 * q + (90 * m) \div bytesTotal, 90)}

\* qMin(qFloor(0.90 * progress), 90) for progress in 0..100
LoadPercent(progress) == qMin((9 * progress) \div 10, 90)

HtmlParser_parse(downloadedData, url) ==
    [parsed |-> TRUE, data |-> downloadedData, url |-> url]

\* [ui, m_model] after parseHtml(downloadedData)
parseHtml(u, url, downloadedData) ==
    LET u1 == setProgressInfo(u, 90, Label("Collecting links..."))
        u2 == setProgressInfo(u1, 99, Label("Finished"))
    IN  [ui |-> setProgressInfo(u2, 100, Label("")),
         m_model |-> HtmlParser_parse(downloadedData, url)]

setNetworkError(u, url, errorString) ==
    setProgressInfo(u, -1, [text |-> "The wizard can't connect to URL:", url |-> url])

\* what every handler of the dialog leaves behind for the observer
Handled(op) ==
    /\ last' = op
    /\ thrown' = "none"
    /\ changed' = 0
    /\ ret' = Void
    /\ UNCHANGED settingsVars
    /\ UNCHANGED USE_QT_WEBENGINE

\* m_webEngineView is created by the first load of a valid URL, which also
\* sets m_url: the view exists exactly when m_url is valid
loadUrl(url) ==
    /\ Len(replies) < MaxReplies
    /\ IF ~UrlIsValid(url)
       THEN UNCHANGED <<m_url, replies, ui>>
       ELSE /\ m_url' = url
            /\ replies' = IF USE_QT_WEBENGINE THEN replies
                           ELSE Append(replies, [url |-> url, state |-> "running"])
            /\ ui' = setProgressInfo(ui, 0, Label("Connecting..."))
    /\ UNCHANGED m_model
    /\ Handled("loadUrl")

\* loadProgress(int) of the view, while it loads m_url
onLoadProgress(progress) ==
    /\ USE_QT_WEBENGINE
    /\ UrlIsValid(m_url)
    /\ ui' = setProgressInfo(ui, LoadPercent(progress), Label("Downloading..."))
    /\ UNCHANGED <<m_url, replies, m_model>>
    /\ Handled("onLoadProgress")

\* downloadProgress(qint64, qint64) of a reply that is running
onDownloadProgress(bytesReceived, bytesTotal) ==
    /\ ~USE_QT_WEBENGINE
    /\ \E r \in 1..Len(replies) : replies[r].state = "running"
    /\ \E percent \in (IF bytesTotal > 0 THEN DownloadPercents(bytesReceived, bytesTotal)
                        ELSE {1}) :
          ui' = setProgressInfo(ui, percent, Label("Downloading..."))
    /\ UNCHANGED <<m_url, replies, m_model>>
    /\ Handled("onDownloadProgress")

\* finished() of reply r, with or without a network error
onFinished(r, noError) ==
    /\ ~USE_QT_WEBENGINE
    /\ r \in 1..Len(replies)
    /\ replies[r].state = "running"
    /\ IF noError
       THEN LET downloadedData == replies[r].url
                done == parseHtml(ui, m_url, downloadedData)
            IN  /\ replies' = [replies EXCEPT ![r].state = "deleteLater"]
                /\ ui' = done.ui
                /\ m_model' = done.m_model
       ELSE /\ replies' = [replies EXCEPT ![r].state = "error"]
            /\ ui' = setNetworkError(ui, m_url, "errorString")
            /\ UNCHANGED m_model
    /\ UNCHANGED m_url
    /\ Handled("onFinished")

Urls == {NoUrl, "http://a/", "http://b/"}
BytesReceived == {0, 1, 50, 100, 200, 2^30}
BytesTotal == {-1, 0, 1, 100}
Progresses == {0, 1, 2, 50, 100}

InitWizard ==
    /\ InitSettings
    /\ USE_QT_WEBENGINE \in BOOLEAN
    /\ InitWizardDialog

NextWizard ==
    \/ \E url \in Urls : loadUrl(url)
    \/ \E progress \in Progresses : onLoadProgress(progress)
    \/ \E bytesReceived \in BytesReceived, bytesTotal \in BytesTotal :
            onDownloadProgress(bytesReceived, bytesTotal)
    \/ \E r \in 1..MaxReplies, noError \in BOOLEAN : onFinished(r, noError)

SpecWizard == InitWizard /\ [][NextWizard]_vars

-----------------------------------------------------------------------------
(* Properties *)

RegisteredAs(items, key, keyType) == FirstWithKeyAndType(items, key, keyType) /= 0
Registered(items, key) == FirstWithKey(items, key) /= 0
ReturnsBool(r, b) == r.thrown = "none" /\ r.ret.kind = "bool" /\ r.ret.val = b
ReturnsInt(r, n) == r.thrown = "none" /\ r.ret.kind = "int" /\ r.ret.val = n
ReturnsString(r, q) == r.thrown = "none" /\ r.ret.kind = "QString" /\ QEq(r.ret.val, q)

\* C1: a Boolean key registered for the first time with default d, preview
\* mode off: getSettingBool(k) right after the registration returns d.
C1_GetAfterRegisterIsDefault ==
    [][\A k \in BoolRegKeys, d \in BOOLEAN :
          (/\ addDefaultSettingBool(k, d)
           /\ thrown' = "none"
           /\ ~RegisteredAs(m_items, k, KT_BOOL)
           /\ ~m_default)
          => ReturnsBool(getSettingBoolResult(m_items', m_default', k), d)]_vars

\* C2: after a typed set of a legal value v on a key registered under the
\* setter's type, the getter of that type returns v when preview mode is off,
\* whatever happened before the set.
C2_GetAfterSetIsValue ==
    [][/\ \A k \in Keys, v \in BOOLEAN :
             (setSettingBool(k, v) /\ RegisteredAs(m_items, k, KT_BOOL) /\ ~m_default)
             => ReturnsBool(getSettingBoolResult(m_items', m_default', k), v)
       /\ \A k \in Keys, v \in IntValues :
             (setSettingInt(k, v) /\ RegisteredAs(m_items, k, KT_INTEGER) /\ ~m_default)
             => ReturnsInt(getSettingIntResult(m_items', m_default', k), v)
       /\ \A k \in Keys, v \in StringValues :
             (/\ setSettingString(k, v)
              /\ ~ValueIsIllegal(v)
              /\ RegisteredAs(m_items, k, KT_STRING)
              /\ ~m_default)
             => ReturnsString(getSettingStringResult(m_items', m_default', k), v)]_vars

\* the typed getter of entry item returns the decoded text q
GetterReturns(items, preview, item, q) ==
    CASE item.keyType = KT_BOOL ->
            ReturnsBool(getSettingBoolResult(items, preview, item.key), stringToBool(q))
      [] item.keyType = KT_INTEGER ->
            ReturnsInt(getSettingIntResult(items, preview, item.key), stringToInt(q))
      [] item.keyType = KT_STRING ->
            ReturnsString(getSettingStringResult(items, preview, item.key), q)

\* C3: in preview mode the typed getter of every entry returns that entry's
\* default; beginRestoreDefault and endRestoreDefault change no entry; and
\* with preview mode off again the getter of every entry returns its current
\* value.
C3_PreviewReadsDefaults ==
    [][/\ (beginRestoreDefault \/ endRestoreDefault) => m_items' = m_items
       /\ \A i \in 1..Len(m_items') :
             GetterReturns(m_items', m_default', m_items'[i],
                           IF m_default' THEN m_items'[i].defaultValue
                           ELSE m_items'[i].value)]_vars

\* the registration of (key, keyType) with default q replaced the default of
\* the entry that was there, and nothing else
OnlyDefaultReplaced(key, keyType, q) ==
    LET i == FirstWithKeyAndType(m_items, key, keyType)
    IN  /\ Len(m_items') = Len(m_items)
        /\ \A j \in 1..Len(m_items) :
              m_items'[j] = IF j = i THEN [m_items[j] EXCEPT !.defaultValue = q]
                            ELSE m_items[j]

\* C4: a successful registration of a key that is already registered with
\* the same type replaces that entry's default and nothing else (no new
\* entry, same current value, other entries untouched), so the getter of
\* that key returns, preview off, what it returned before.
C4_ReRegistrationKeepsValue ==
    [][/\ \A k \in BoolRegKeys, d \in BOOLEAN :
             (/\ last' = "addDefaultSettingBool" /\ thrown' = "none"
              /\ RegisteredAs(m_items, k, KT_BOOL)
              /\ addDefaultSettingBool(k, d))
             => /\ OnlyDefaultReplaced(k, KT_BOOL, boolToString(d))
                /\ getSettingBoolResult(m_items', FALSE, k)
                     = getSettingBoolResult(m_items, FALSE, k)
       /\ \A k \in IntRegKeys, d \in IntDefaults :
             (/\ last' = "addDefaultSettingInt" /\ thrown' = "none"
              /\ RegisteredAs(m_items, k, KT_INTEGER)
              /\ addDefaultSettingInt(k, d))
             => /\ OnlyDefaultReplaced(k, KT_INTEGER, intToString(d))
                /\ getSettingIntResult(m_items', FALSE, k)
                     = getSettingIntResult(m_items, FALSE, k)
       /\ \A k \in StringRegKeys, d \in StringDefaults :
             (/\ last' = "addDefaultSettingString" /\ thrown' = "none"
              /\ RegisteredAs(m_items, k, KT_STRING)
              /\ addDefaultSettingString(k, d))
             => /\ OnlyDefaultReplaced(k, KT_STRING, d)
                /\ getSettingStringResult(m_items', FALSE, k)
                     = getSettingStringResult(m_items, FALSE, k)]_vars

\* setSettingBool(k, true) then addDefaultSettingBool(k, false): the entry
\* holds the value true under the default false
C4_Witness ==
    /\ last = "addDefaultSettingBool" /\ thrown = "none"
    /\ \E i \in 1..Len(m_items) :
          /\ m_items[i].keyType = KT_BOOL
          /\ m_items[i].value = VALUE_TRUE
          /\ m_items[i].defaultValue = VALUE_FALSE
    /\ ReturnsBool(getSettingBoolResult(m_items, FALSE, "x"), TRUE)

\* key is registered, but under other types only
OtherTypeOnly(items, key, keyType) ==
    Registered(items, key) /\ ~RegisteredAs(items, key, keyType)

WrongType == thrown' = "WrongTypeException" /\ ret' = Void
NothingStored == m_items' = m_items /\ changed' = 0

\* C6 as stated: every typed get or set on a key registered under a
\* different type only throws WrongTypeException and returns nothing.
C6_AsStated ==
    [][/\ \A k \in Keys :
             /\ (last' = "getSettingBool" /\ OtherTypeOnly(m_items, k, KT_BOOL)
                  /\ getSettingBool(k)) => WrongType
             /\ (last' = "getSettingInt" /\ OtherTypeOnly(m_items, k, KT_INTEGER)
                  /\ getSettingInt(k)) => WrongType
             /\ (last' = "getSettingString" /\ OtherTypeOnly(m_items, k, KT_STRING)
                  /\ getSettingString(k)) => WrongType
       /\ \A k \in Keys, v \in BOOLEAN :
             (last' = "setSettingBool" /\ OtherTypeOnly(m_items, k, KT_BOOL)
              /\ setSettingBool(k, v)) => WrongType
       /\ \A k \in Keys, v \in IntValues :
             (last' = "setSettingInt" /\ OtherTypeOnly(m_items, k, KT_INTEGER)
              /\ setSettingInt(k, v)) => WrongType
       /\ \A k \in Keys, v \in StringValues :
             (last' = "setSettingString" /\ OtherTypeOnly(m_items, k, KT_STRING)
              /\ setSettingString(k, v)) => WrongType]_vars

\* C6, amended: a typed get, or a typed set of a legal value, on a key
\* registered under a different type only throws WrongTypeException, returns
\* nothing and stores nothing.
C6_WrongType ==
    [][/\ \A k \in Keys :
             /\ (last' = "getSettingBool" /\ OtherTypeOnly(m_items, k, KT_BOOL)
                  /\ getSettingBool(k)) => WrongType
             /\ (last' = "getSettingInt" /\ OtherTypeOnly(m_items, k, KT_INTEGER)
                  /\ getSettingInt(k)) => WrongType
             /\ (last' = "getSettingString" /\ OtherTypeOnly(m_items, k, KT_STRING)
                  /\ getSettingString(k)) => WrongType
       /\ \A k \in Keys, v \in BOOLEAN :
             (last' = "setSettingBool" /\ OtherTypeOnly(m_items, k, KT_BOOL)
              /\ setSettingBool(k, v)) => WrongType /\ NothingStored
       /\ \A k \in Keys, v \in IntValues :
             (last' = "setSettingInt" /\ OtherTypeOnly(m_items, k, KT_INTEGER)
              /\ setSettingInt(k, v)) => WrongType /\ NothingStored
       /\ \A k \in Keys, v \in StringValues :
             (last' = "setSettingString" /\ OtherTypeOnly(m_items, k, KT_STRING)
              /\ ~ValueIsIllegal(v)
              /\ setSettingString(k, v)) => WrongType /\ NothingStored]_vars

\* addDefaultSettingBool("x", d) then getSettingInt("x")
C6_Witness ==
    /\ last = "getSettingInt" /\ thrown = "WrongTypeException"
    /\ OtherTypeOnly(m_items, "x", KT_INTEGER)
    /\ RegisteredAs(m_items, "x", KT_BOOL)

MissingKey == thrown' = "MissingKeyException" /\ ret' = Void
IllegalKey == thrown' = "IllegalKeyException" /\ ret' = Void

\* C7 as stated: a typed get on any key string that is not registered, the
\* empty string and "<UNDEFINED>" included, throws MissingKeyException, and so
\* does a set of a legal value.
C7_AsStated ==
    [][/\ \A k \in Keys :
             /\ (last' = "getSettingBool" /\ ~Registered(m_items, k)
                  /\ getSettingBool(k)) => MissingKey
             /\ (last' = "getSettingInt" /\ ~Registered(m_items, k)
                  /\ getSettingInt(k)) => MissingKey
             /\ (last' = "getSettingString" /\ ~Registered(m_items, k)
                  /\ getSettingString(k)) => MissingKey
       /\ \A k \in Keys, v \in BOOLEAN :
             (last' = "setSettingBool" /\ ~Registered(m_items, k)
              /\ setSettingBool(k, v)) => MissingKey
       /\ \A k \in Keys, v \in IntValues :
             (last' = "setSettingInt" /\ ~Registered(m_items, k)
              /\ setSettingInt(k, v)) => MissingKey
       /\ \A k \in Keys, v \in StringValues :
             (last' = "setSettingString" /\ ~Registered(m_items, k)
              /\ ~ValueIsIllegal(v)
              /\ setSettingString(k, v)) => MissingKey]_vars

\* what C7 promises of one call, amended: IllegalKeyException for the empty
\* key and for "<UNDEFINED>", MissingKeyException for any other key that is
\* not registered; nothing is returned or stored
MissingOrIllegal(k) ==
    /\ IF KeyIsIllegal(k) THEN IllegalKey ELSE MissingKey
    /\ NothingStored

\* C7, amended: a typed get, or a typed set of a legal value, on a key that
\* is not registered throws MissingKeyException, unless the key is empty or
\* "<UNDEFINED>": then it throws IllegalKeyException.
C7_MissingKey ==
    [][/\ \A k \in Keys :
             /\ (last' = "getSettingBool" /\ ~Registered(m_items, k)
                  /\ getSettingBool(k)) => MissingOrIllegal(k)
             /\ (last' = "getSettingInt" /\ ~Registered(m_items, k)
                  /\ getSettingInt(k)) => MissingOrIllegal(k)
             /\ (last' = "getSettingString" /\ ~Registered(m_items, k)
                  /\ getSettingString(k)) => MissingOrIllegal(k)
       /\ \A k \in Keys, v \in BOOLEAN :
             (last' = "setSettingBool" /\ ~Registered(m_items, k)
              /\ setSettingBool(k, v)) => MissingOrIllegal(k)
       /\ \A k \in Keys, v \in IntValues :
             (last' = "setSettingInt" /\ ~Registered(m_items, k)
              /\ setSettingInt(k, v)) => MissingOrIllegal(k)
       /\ \A k \in Keys, v \in StringValues :
             (last' = "setSettingString" /\ ~Registered(m_items, k)
              /\ ~ValueIsIllegal(v)
              /\ setSettingString(k, v)) => MissingOrIllegal(k)]_vars

\* getSettingString("y") with only "x" registered
C7_Witness ==
    /\ last = "getSettingString" /\ thrown = "MissingKeyException"
    /\ Registered(m_items, "x") /\ ~Registered(m_items, "y")

KeyLegal(k) == ~KeyIsIllegal(k)
IllegalValue == thrown' = "IllegalValueException" /\ ret' = Void

\* C8 as stated: a registration throws IllegalKeyException when the key is
\* empty or "<UNDEFINED>" and IllegalValueException when the serialized
\* default is null or "<UNDEFINED>"; setSettingString with such a value
\* throws IllegalValueException; no entry is added.
C8_AsStated ==
    [][/\ \A k \in BoolRegKeys, d \in BOOLEAN :
             (last' = "addDefaultSettingBool" /\ addDefaultSettingBool(k, d))
             => /\ KeyIsIllegal(k) => IllegalKey /\ NothingStored
                /\ ValueIsIllegal(boolToString(d)) => IllegalValue /\ NothingStored
       /\ \A k \in IntRegKeys, d \in IntDefaults :
             (last' = "addDefaultSettingInt" /\ addDefaultSettingInt(k, d))
             => /\ KeyIsIllegal(k) => IllegalKey /\ NothingStored
                /\ ValueIsIllegal(intToString(d)) => IllegalValue /\ NothingStored
       /\ \A k \in StringRegKeys, d \in StringDefaults :
             (last' = "addDefaultSettingString" /\ addDefaultSettingString(k, d))
             => /\ KeyIsIllegal(k) => IllegalKey /\ NothingStored
                /\ ValueIsIllegal(d) => IllegalValue /\ NothingStored
       /\ \A k \in Keys, v \in StringValues :
             (last' = "setSettingString" /\ setSettingString(k, v))
             => (ValueIsIllegal(v) => IllegalValue /\ NothingStored)]_vars

\* C8, amended: the key is checked first.  A registration throws
\* IllegalKeyException when the key is empty or "<UNDEFINED>", and
\* IllegalValueException when the key is legal and the serialized default is
\* null or "<UNDEFINED>"; setSettingString with such a value throws
\* IllegalValueException when the key is legal (registered or not) and
\* IllegalKeyException when it is not; no entry is added or changed.
C8_IllegalKeyOrValue ==
    [][/\ \A k \in BoolRegKeys, d \in BOOLEAN :
             (last' = "addDefaultSettingBool" /\ addDefaultSettingBool(k, d))
             => /\ KeyIsIllegal(k) => IllegalKey /\ NothingStored
                /\ KeyLegal(k) /\ ValueIsIllegal(boolToString(d))
                     => IllegalValue /\ NothingStored
       /\ \A k \in IntRegKeys, d \in IntDefaults :
             (last' = "addDefaultSettingInt" /\ addDefaultSettingInt(k, d))
             => /\ KeyIsIllegal(k) => IllegalKey /\ NothingStored
                /\ KeyLegal(k) /\ ValueIsIllegal(intToString(d))
                     => IllegalValue /\ NothingStored
       /\ \A k \in StringRegKeys, d \in StringDefaults :
             (last' = "addDefaultSettingString" /\ addDefaultSettingString(k, d))
             => /\ KeyIsIllegal(k) => IllegalKey /\ NothingStored
                /\ KeyLegal(k) /\ ValueIsIllegal(d) => IllegalValue /\ NothingStored
       /\ \A k \in Keys, v \in StringValues :
             (last' = "setSettingString" /\ ValueIsIllegal(v) /\ setSettingString(k, v))
             => /\ IF KeyIsIllegal(k) THEN IllegalKey ELSE IllegalValue
                /\ NothingStored]_vars

\* a registration of a String default, or a setSettingString, has thrown
\* IllegalValueException while "x" is registered as a String
C8_Witness ==
    /\ last \in {"addDefaultSettingString", "setSettingString"}
    /\ thrown = "IllegalValueException"
    /\ RegisteredAs(m_items, "x", KT_STRING)

\* C9: with preview mode off, a set of the value the getter has just
\* returned emits no changed() signal, in every reachable state; and no set
\* emits more than one.
C9_NoSpuriousChanged ==
    [][/\ \A k \in Keys, v \in BOOLEAN :
             (/\ last' = "setSettingBool" /\ ~m_default
              /\ ReturnsBool(getSettingBoolResult(m_items, m_default, k), v)
              /\ setSettingBool(k, v)) => changed' = 0
       /\ \A k \in Keys, v \in IntValues :
             (/\ last' = "setSettingInt" /\ ~m_default
              /\ ReturnsInt(getSettingIntResult(m_items, m_default, k), v)
              /\ setSettingInt(k, v)) => changed' = 0
       /\ \A k \in Keys, v \in StringValues :
             (/\ last' = "setSettingString" /\ ~m_default
              /\ ReturnsString(getSettingStringResult(m_items, m_default, k), v)
              /\ setSettingString(k, v)) => changed' = 0
       /\ last' \in {"setSettingBool", "setSettingInt", "setSettingString"}
             => changed' <= 1]_vars

\* C5: the second registry, built right after writeSettings from the same
\* schema by readSettings, holds for every entry the current value the first
\* registry holds.
C5_RoundTrip ==
    fresh.built =>
        /\ Len(fresh.items) = Len(m_items)
        /\ \A i \in 1..Len(m_items) :
              /\ fresh.items[i].key = m_items[i].key
              /\ fresh.items[i].keyType = m_items[i].keyType
              /\ QEq(fresh.items[i].defaultValue, m_items[i].defaultValue)
              /\ QEq(fresh.items[i].value, m_items[i].value)

SameList(a, b) == Len(a) = Len(b) /\ \A i \in 1..Len(a) : QEq(a[i], b[i])

\* C10: addDefaultSettingStringList(key, defaults) on a registry as
\* constructed, then getSettingStringList(key): the list returned is defaults.
C10_ListAfterRegisterIsDefaults ==
    [][\A key \in ListKeys, list \in Lists :
          (/\ last' = "addDefaultSettingStringList" /\ thrown' = "none"
           /\ m_items = <<>> /\ ~m_default
           /\ addDefaultSettingStringList(key, list))
          => SameList(q_getSettingStringList(m_items', m_default', key), list)]_vars

\* C11: in every reachable state, the value and the defaultValue of every
\* entry are non-null strings different from the sentinel "<UNDEFINED>".
C11_ValuesNeverNullOrUndefined ==
    \A i \in 1..Len(m_items) :
        /\ ~ValueIsIllegal(m_items[i].value)
        /\ ~ValueIsIllegal(m_items[i].defaultValue)

\* the name and the frame of an entry: key, type and default
SameSchema(a, b) ==
    /\ Len(a) = Len(b)
    /\ \A i \in 1..Len(a) :
          /\ a[i].key = b[i].key
          /\ a[i].keyType = b[i].keyType
          /\ a[i].defaultValue = b[i].defaultValue

NamedBy(items, name) == {i \in 1..Len(items) : uniqueRegisterKey(items[i]) = name}
Max(S) == CHOOSE x \in S : \A y \in S : y <= x

C14_DistinctStoreNames ==
    \A i, j \in 1..Len(m_items) :
        (m_items[i].key /= m_items[j].key \/ m_items[i].keyType /= m_items[j].keyType)
        => uniqueRegisterKey(m_items[i]) /= uniqueRegisterKey(m_items[j])

RECURSIVE ListUpToFirstGap(_, _, _, _)
\* the effective values of the String entries key+i, key+(i+1), ... up to the
\* first index that has none
ListUpToFirstGap(items, preview, key, i) ==
    LET j == FirstWithKeyAndType(items, SubKey(key, i), KT_STRING)
    IN  IF j = 0 THEN <<>>
        ELSE <<IF preview THEN items[j].defaultValue ELSE items[j].value>>
             \o ListUpToFirstGap(items, preview, key, i + 1)

\* C15: getSettingStringList(key) returns the effective values of the String
\* entries key+0, key+1, ... in index order, up to the first index that has
\* no such entry.
C15_ListStopsAtFirstGap ==
    [][\A key \in ListKeys :
          (last' = "getSettingStringList" /\ getSettingStringList(key))
          => /\ ret'.kind = "QStringList"
             /\ SameList(ret'.val, ListUpToFirstGap(m_items, m_default, key, 0))]_vars

\* every entry whose key is a sub-key of the list is a String entry
AllSubKeysString(items, key) ==
    \A j \in 1..Len(items) :
        (\E i \in 0..(Len(items) - 1) : items[j].key = SubKey(key, i))
        => items[j].keyType = KT_STRING

\* C16: a setSettingStringList(key, value) that returns has given the entry
\* key+i the value value[i], for every i below the length of the list, and
\* has changed no other entry and no default.  Where the sub-keys are String
\* entries, getSettingStringList(key) then returns the elements it returned
\* before from position Len(value) on, and, preview off, value before them.
C16_SetListKeepsTrailing ==
    [][\A key \in ListKeys, value \in Lists :
          (/\ last' = "setSettingStringList" /\ thrown' = "none"
           /\ setSettingStringList(key, value))
          => /\ Len(m_items') = Len(m_items)
             /\ \A j \in 1..Len(m_items) :
                   LET I == {i \in 0..(Len(value) - 1) :
                                FirstWithKey(m_items, SubKey(key, i)) = j}
                   IN  IF I = {} THEN m_items'[j] = m_items[j]
                       ELSE \A i \in I :
                               m_items'[j] = [m_items[j] EXCEPT !.value = value[i + 1]]
             /\ AllSubKeysString(m_items, key) =>
                   LET old == q_getSettingStringList(m_items, m_default, key)
                       new == q_getSettingStringList(m_items', m_default', key)
                       n == Len(value)
                   IN  /\ Len(new) = Len(old)
                       /\ n <= Len(new)
                       /\ SubSeq(new, n + 1, Len(new)) = SubSeq(old, n + 1, Len(old))
                       /\ ~m_default => SameList(SubSeq(new, 1, n), value)]_vars

\* a list of one element has been set over the list of two: "p1", which the
\* call left as it was (never set), is still returned after "p0"
C16_Witness ==
    /\ last = "setSettingStringList"
    /\ thrown = "none"
    /\ changed = 1
    /\ ~m_default
    /\ Len(q_getSettingStringList(m_items, m_default, "p")) = 2
    /\ \E i, j \in 1..Len(m_items) :
          /\ m_items[i].key = "p0" /\ m_items[i].keyType = KT_STRING
          /\ ~m_items[i].value.isNull
          /\ m_items[j].key = "p1" /\ m_items[j].keyType = KT_STRING
          /\ m_items[j].value.isNull

\* C17: a set operation that throws changes no entry and emits no changed().
C17_FailedSetChangesNothing ==
    [][(/\ last' \in {"setSettingBool", "setSettingInt", "setSettingString",
                      "setSettingStringList"}
        /\ thrown' /= "none")
       => (m_items' = m_items /\ changed' = 0)]_vars

\* C18: every entry is reached through the accessors of its own type: the
\* getter of its type on its key returns the entry's effective value, and the
\* setter of its type on its key sets that entry.
C18_EveryEntryReachable ==
    \A i \in 1..Len(m_items) :
        LET item == m_items[i]
            got == q_getSetting(m_items, m_default, item.key, item.keyType)
            set == q_setSetting(m_items, item.key, VALUE_TRUE, item.keyType)
        IN  /\ got.thrown = "none"
            /\ got.value = (IF m_default THEN item.defaultValue ELSE item.value)
            /\ set.thrown = "none"
            /\ set.items = [m_items EXCEPT ![i].value = VALUE_TRUE]

\* C19: the percentage onDownloadProgress and onLoadProgress hand to
\* setProgressInfo lies between 1 and 90: after either handler the progress
\* page shows a visible bar whose value is in 1..90.
C19_PercentBetween1And90 ==
    last \in {"onDownloadProgress", "onLoadProgress"}
    => /\ ui.stackedWidget = 1
       /\ ui.progressBarVisible
       /\ ui.progressBar \in 1..90

\* the links of the page at url, resolved against url
LinksOf(url) == HtmlParser_parse(url, url)

\* C20: whatever the link model holds was parsed against the URL its data
\* was requested from; and once every fetch started has finished without an
\* error, the model holds the links of the URL requested last.
C20_RepliesParsedAgainstOwnUrl ==
    /\ m_model.parsed => m_model = LinksOf(m_model.data)
    /\ (/\ replies /= <<>>
        /\ \A r \in 1..Len(replies) : replies[r].state = "deleteLater")
       => m_model = LinksOf(replies[Len(replies)].url)

\* the store never holds the sentinel text: writeSettings stores values only
StoreNeverHoldsUndefined ==
    \A n \in DOMAIN settings : settings[n] /= UNDEFINED.str

-----------------------------------------------------------------------------
(* What holds of C2, C3 and C5 where the two lookups agree and no two      *)
(* entries share a store name: these locate the failures above.            *)

\* the entry (key, keyType) exists and is the first item with its key
FirstOfItsKey(items, key, keyType) ==
    /\ RegisteredAs(items, key, keyType)
    /\ FirstWithKey(items, key) = FirstWithKeyAndType(items, key, keyType)

\* C2, for an entry that is the first with its key: the getter returns the
\* legal value just set, preview off.
C2_FirstOfItsKey ==
    [][/\ \A k \in Keys, v \in BOOLEAN :
             (/\ last' = "setSettingBool" /\ ~m_default
              /\ FirstOfItsKey(m_items, k, KT_BOOL)
              /\ setSettingBool(k, v))
             => ReturnsBool(getSettingBoolResult(m_items', m_default', k), v)
       /\ \A k \in Keys, v \in IntValues :
             (/\ last' = "setSettingInt" /\ ~m_default
              /\ FirstOfItsKey(m_items, k, KT_INTEGER)
              /\ setSettingInt(k, v))
             => ReturnsInt(getSettingIntResult(m_items', m_default', k), v)
       /\ \A k \in Keys, v \in StringValues :
             (/\ last' = "setSettingString" /\ ~m_default
              /\ ~ValueIsIllegal(v)
              /\ FirstOfItsKey(m_items, k, KT_STRING)
              /\ setSettingString(k, v))
             => ReturnsString(getSettingStringResult(m_items', m_default', k), v)]_vars

\* C3, for the entries that are the first with their key: the getter returns
\* the default in preview mode and the current value outside it.
C3_FirstOfItsKey ==
    \A i \in 1..Len(m_items) :
        FirstOfItsKey(m_items, m_items[i].key, m_items[i].keyType)
        => GetterReturns(m_items, m_default, m_items[i],
                         IF m_default THEN m_items[i].defaultValue
                         ELSE m_items[i].value)

\* C5, when no two entries share a store name: the second registry holds the
\* values of the first.
C5_NoSharedName ==
    (\A i, j \in 1..Len(m_items) :
        i /= j => uniqueRegisterKey(m_items[i]) /= uniqueRegisterKey(m_items[j]))
    => C5_RoundTrip

====
